---- MODULE Spec2Model ----
(***************************************************************************)
(* Backup orchestration engine of backend/backup_manager.py:               *)
(* BackupManager.start_backup and its worker thread _perform_backup, the   *)
(* live-job map active_backups, and the archive store under backup_dir     *)
(* with _cleanup_old_backups, get_backups and delete_backup.               *)
(*                                                                         *)
(* A backup file backup_<timestamp>.zip is identified by its timestamp (a  *)
(* number); its metadata file is backup_<timestamp>.zip.json. The clock is *)
(* logical: one run reads it once, so the name, the modification time and  *)
(* the created_at of one run are one instant, and two runs never share     *)
(* one.                                                                    *)
(***************************************************************************)
EXTENDS Integers, Sequences, FiniteSets, TLC

VARIABLES
    active_backups,  \* self.active_backups: server_name -> job record
    backup_dir,      \* self.backup_dir: server directory -> [zips, metas]
    now,             \* the clock read by datetime.now()
    call,            \* the start_backup requests: position, server, reply
    thread,          \* the worker threads running _perform_backup
    events,          \* the progress events each worker has emitted
    last,            \* the last store operation and what it answered
    run              \* one job seen from inside: its paths, callback, locals

vars == <<active_backups, backup_dir, now, call, thread, events, last, run>>

----------------------------------------------------------------------------
(* Bounds of the model *)

NumCalls == 2       \* start_backup requests made in one behaviour
MaxExtra == 1       \* archives a directory starts with beyond keep_count
MaxArchives == 2    \* SpecStore: backups drawn on the disk
MaxKeep == 1        \* SpecStore: keep_count drawn from 0..MaxKeep
MaxDamaged == 1     \* SpecStore: backups drawn without one of their two files
MaxFiles == 1       \* files the remote paths of one run hold

(* Program constants *)

keep_count == 7     \* _cleanup_old_backups(..., keep_count=7)

Servers == {"web1", "db1"}

ServerIndex(s) == IF s = "web1" THEN 1 ELSE 2

NumServers == Cardinality(Servers)

Calls == 1..NumCalls

----------------------------------------------------------------------------
(* The archive store: files under backup_dir/<server_name>/ *)

\* backup_<name>.zip with its st_mtime
ZipFile(name, mtime) == [name |-> name, mtime |-> mtime]

\* backup_path.stat().st_size: the bytes of the backup file with this name.
\* The archives differ in size by eighths of a MiB, which 'size_mb' rounds.
StSize(name) == name * 131072

\* backup_<name>.zip.json: the metadata dictionary of _perform_backup
Metadata(server_name, name, created_at, files_count) ==
    [server_name |-> server_name, backup_name |-> name,
     created_at |-> created_at, size_bytes |-> StSize(name),
     files_count |-> files_count]

EmptyDir == [zips |-> {}, metas |-> {}]

\* server_backup_dir.mkdir(exist_ok=True)
Mkdir(dirs, s) == IF s \in DOMAIN dirs THEN dirs ELSE (s :> EmptyDir) @@ dirs

\* backup_files.sort(reverse=True) on (st_mtime, path) tuples
Newer(a, b) == a.mtime > b.mtime \/ (a.mtime = b.mtime /\ a.name > b.name)

RECURSIVE SortNewestFirst(_)
SortNewestFirst(S) ==
    IF S = {} THEN <<>>
    ELSE LET m == CHOOSE a \in S : \A b \in S \ {a} : Newer(a, b)
         IN <<m>> \o SortNewestFirst(S \ {m})

SliceFromOneLater(seq, k) == SubSeq(seq, k + 2, Len(seq))

\* backup_files[keep_count:]
SliceFrom(seq, k) == SubSeq(seq, k + 1, Len(seq))

\* The unlink calls of the loop of _cleanup_old_backups, in order: the backup
\* file, then its metadata file if it exists.
RECURSIVE UnlinkOps(_, _)
UnlinkOps(doomed, metas) ==
    IF doomed = <<>> THEN <<>>
    ELSE LET a == Head(doomed)
         IN <<[kind |-> "zip", name |-> a.name]>>
            \o (IF \E m \in metas : m.backup_name = a.name
                THEN <<[kind |-> "json", name |-> a.name]>> ELSE <<>>)
            \o UnlinkOps(Tail(doomed), metas)

\* Path.unlink()
Unlink(dir, op) ==
    IF op.kind = "zip"
    THEN [dir EXCEPT !.zips = {z \in @ : z.name # op.name}]
    ELSE [dir EXCEPT !.metas = {m \in @ : m.backup_name # op.name}]

RECURSIVE ApplyUnlinks(_, _, _)
ApplyUnlinks(dir, ops, n) ==
    IF n = 0 \/ ops = <<>> THEN dir
    ELSE ApplyUnlinks(Unlink(dir, Head(ops)), Tail(ops), n - 1)

\* The unlink calls _cleanup_old_backups makes on a directory when none fails
CleanupOps(dir, keep) ==
    UnlinkOps(SliceFrom(SortNewestFirst(dir.zips), keep), dir.metas)

\* _cleanup_old_backups(server_backup_dir, keep_count): the first nOk unlink
\* calls succeed; if there is a next one it raises, and the except clause
\* around the whole loop ends the pruning there.
cleanup_old_backups(dir, keep, nOk) ==
    ApplyUnlinks(dir, CleanupOps(dir, keep), nOk)

\* round(size_bytes / (1024 * 1024), 2), in hundredths of a MiB: Python
\* rounds the exact quotient to the nearest hundredth, a tie to the even one
SizeMb(size_bytes) ==
    LET q == (size_bytes * 100) \div (1024 * 1024)
        r == (size_bytes * 100) % (1024 * 1024)
    IN IF 2 * r > 1024 * 1024 \/ (2 * r = 1024 * 1024 /\ q % 2 = 1) THEN q + 1 ELSE q

ListedSetUnchecked(dirs, chosen) ==
    UNION { { [server_name |-> m.server_name, backup_name |-> m.backup_name,
               created_at |-> m.created_at, size_bytes |-> m.size_bytes,
               files_count |-> m.files_count,
               file_path |-> <<d, m.backup_name>>,
               size_mb |-> SizeMb(m.size_bytes)] : m \in dirs[d].metas } :
            d \in chosen \cap DOMAIN dirs }

\* get_backups(server_name): the metadata files backup_*.json of the chosen
\* directories whose backup file exists, with file_path and size_mb added.
ListedSet(dirs, chosen) ==
    UNION { { [server_name |-> m.server_name, backup_name |-> m.backup_name,
               created_at |-> m.created_at, size_bytes |-> m.size_bytes,
               files_count |-> m.files_count,
               file_path |-> <<d, m.backup_name>>,
               size_mb |-> SizeMb(m.size_bytes)] :
              m \in {x \in dirs[d].metas :
                        \E z \in dirs[d].zips : z.name = x.backup_name} } :
            d \in chosen \cap DOMAIN dirs }

\* backups.sort(key=lambda x: x['created_at'], reverse=True)
RECURSIVE SortByCreatedAt(_)
SortByCreatedAt(S) ==
    IF S = {} THEN <<>>
    ELSE LET m == CHOOSE a \in S : \A b \in S : a.created_at >= b.created_at
         IN <<m>> \o SortByCreatedAt(S \ {m})

get_backups(dirs, chosen) == SortByCreatedAt(ListedSet(dirs, chosen))

\* line 371-374: the directory of server_name, or every directory under the
\* backup root when server_name is None or empty (written "")
ServerDirs(dirs, server_name) ==
    IF server_name = "" THEN DOMAIN dirs ELSE {server_name}

FindBackupTakesFirst(backups, backup_id) ==
    IF backups = <<>> THEN <<>> ELSE <<Head(backups)>>

\* The loop of delete_backup: the first listed backup whose created_at is
\* backup_id, as a sequence of at most one element.
RECURSIVE FindBackup(_, _)
FindBackup(backups, backup_id) ==
    IF backups = <<>> THEN <<>>
    ELSE IF Head(backups).created_at = backup_id THEN <<Head(backups)>>
    ELSE FindBackup(Tail(backups), backup_id)

\* What unlink does in delete_backup: "ok", or the unlink that raises
DeleteOutcomes == {"ok", "zip_unlink_raises", "json_unlink_raises"}

delete_backup_keeps_metadata(dirs, backup_id, outcome) ==
    LET found == FindBackup(get_backups(dirs, Servers), backup_id)
    IN IF found = <<>> \/ outcome = "zip_unlink_raises" THEN dirs
       ELSE [dirs EXCEPT ![found[1].file_path[1]] =
                Unlink(@, [kind |-> "zip", name |-> found[1].file_path[2]])]

\* delete_backup(backup_id): the directories afterwards
delete_backup(dirs, backup_id, outcome) ==
    LET found == FindBackup(get_backups(dirs, Servers), backup_id)
    IN IF found = <<>> THEN dirs
       ELSE LET d == found[1].file_path[1]
                n == found[1].file_path[2]
                zipGone == Unlink(dirs[d], [kind |-> "zip", name |-> n])
                bothGone == Unlink(zipGone, [kind |-> "json", name |-> n])
            IN CASE outcome = "zip_unlink_raises" -> dirs
                 [] outcome = "json_unlink_raises" -> [dirs EXCEPT ![d] = zipGone]
                 [] OTHER -> [dirs EXCEPT ![d] = bothGone]

\* delete_backup(backup_id): the (success, message) it returns
delete_backup_reply(dirs, backup_id, outcome) ==
    IF FindBackup(get_backups(dirs, Servers), backup_id) = <<>>
    THEN [ok |-> FALSE, message |-> "Backup not found"]
    ELSE IF outcome = "ok"
    THEN [ok |-> TRUE, message |-> "Backup deleted successfully"]
    ELSE [ok |-> FALSE, message |-> "Error deleting backup"]

----------------------------------------------------------------------------
(* The live-job map and the start_backup request *)

\* The dictionary start_backup stores under server_name; no 'error' and no
\* 'backup_file' key yet (written here as "" and <<>>).
RunningJob ==
    [status |-> "running", progress |-> 0, files_processed |-> 0,
     total_files |-> 0, data_size |-> 0, error |-> "", backup_file |-> <<>>]

\* `server_name in self.active_backups`
InActiveBackups(s) == s \in DOMAIN active_backups

AlreadyInProgressTerminalOnly(s) ==
    InActiveBackups(s) /\ active_backups[s].status # "running"

\* The guard of start_backup, line 61
AlreadyInProgress(s) == InActiveBackups(s)

IdleCall == [pc |-> "idle", server |-> "", ok |-> FALSE, message |-> ""]

IdleThread ==
    [pc |-> "none", backup_name |-> 0, total_files |-> 0,
     files_processed |-> 0, error |-> ""]

NoOp ==
    [op |-> "none", server |-> "", backup_id |-> 0, keep |-> 0,
     ok |-> FALSE, message |-> "", unlinked |-> 0, listing |-> <<>>]

\* progress_callback(log_type, message, progress); progress None is -1
Event(type, progress) == [type |-> type, progress |-> progress]

Emit(c, evs) == events' = [events EXCEPT ![c] = @ \o evs]

\* Request c arrives: the requests are numbered in the order of their guards
NextRequest(c) ==
    /\ call[c].pc = "idle"
    /\ \A b \in Calls : b < c => call[b].pc # "idle"

\* start_backup, line 61-62: the guard finds the server in the map and the
\* request returns at once.
StartBackupReject(c, s) ==
    /\ NextRequest(c)
    /\ AlreadyInProgress(s)
    /\ call' = [call EXCEPT ![c] =
                  [pc |-> "rejected", server |-> s, ok |-> FALSE,
                   message |-> "Backup already in progress for this server"]]
    /\ UNCHANGED <<active_backups, backup_dir, now, thread, events, last, run>>

\* start_backup, line 61-70: the guard passes, the worker thread is created
\* and started. The record is not in the map yet.
StartBackupLaunch(c, s) ==
    /\ NextRequest(c)
    /\ ~AlreadyInProgress(s)
    /\ call' = [call EXCEPT ![c] = [@ EXCEPT !.pc = "launched", !.server = s]]
    /\ thread' = [thread EXCEPT ![c] = [@ EXCEPT !.pc = "connect"]]
    /\ UNCHANGED <<active_backups, backup_dir, now, events, last, run>>

\* start_backup, line 72-83: the 'running' record is stored and the request
\* returns success.
StartBackupRegister(c) ==
    /\ call[c].pc = "launched"
    /\ active_backups' = (call[c].server :> RunningJob) @@ active_backups
    /\ call' = [call EXCEPT ![c] =
                  [@ EXCEPT !.pc = "accepted", !.ok = TRUE,
                            !.message = "Backup started successfully"]]
    /\ UNCHANGED <<backup_dir, now, thread, events, last, run>>

----------------------------------------------------------------------------
(* The worker thread: _perform_backup. One action per stretch of code that
   reads or writes the job map or the disk. *)

\* `raise` inside the try of _perform_backup: control goes to line 240
Raise(c, e) ==
    thread' = [thread EXCEPT ![c] = [@ EXCEPT !.pc = "except", !.error = e]]

Goto(c, pc) == thread' = [thread EXCEPT ![c] = [@ EXCEPT !.pc = pc]]

UpdateJobOfAll(s, job) ==
    active_backups' =
        IF InActiveBackups(s) THEN [d \in DOMAIN active_backups |-> job]
        ELSE active_backups

\* line 133-134, 159-161, 231-235, 246-248: `if server_name in
\* self.active_backups:` then update the record
UpdateJob(s, job) ==
    active_backups' =
        IF InActiveBackups(s) THEN [active_backups EXCEPT ![s] = job]
        ELSE active_backups

\* line 90-116: connect, open the file-transfer channel, make the server
\* directory, read the clock for the backup name
Connect(c) ==
    /\ thread[c].pc = "connect"
    /\ \/ /\ Emit(c, <<Event("info", 0)>>)
          /\ Raise(c, "connect failed")
          /\ UNCHANGED <<backup_dir, now>>
       \/ /\ Emit(c, <<Event("info", 0), Event("success", 5)>>)
          /\ Raise(c, "mkdir failed")
          /\ UNCHANGED <<backup_dir, now>>
       \/ /\ Emit(c, <<Event("info", 0), Event("success", 5)>>)
          /\ backup_dir' = Mkdir(backup_dir, call[c].server)
          /\ thread' = [thread EXCEPT ![c] =
                          [@ EXCEPT !.pc = "analyze", !.backup_name = now]]
          /\ now' = now + 1
    /\ UNCHANGED <<active_backups, call, last, run>>

\* line 118-134: count the files of the paths (a count that fails is 0) and
\* note the total in the record, if the server is in the map
Analyze(c, total) ==
    /\ thread[c].pc = "analyze"
    /\ thread' = [thread EXCEPT ![c] =
                    [@ EXCEPT !.pc = "download", !.total_files = total]]
    /\ UpdateJob(call[c].server,
                 [active_backups[call[c].server] EXCEPT !.total_files = total])
    /\ Emit(c, <<Event("info", 10), Event("info", 15)>>)
    /\ UNCHANGED <<backup_dir, now, call, last, run>>

\* line 137-166: download every requested path into the temporary directory
\* (a path that fails is reported and skipped) and note the files and the
\* bytes in the record, if the server is in the map
Download(c, files) ==
    /\ thread[c].pc = "download"
    /\ thread' = [thread EXCEPT ![c] =
                    [@ EXCEPT !.pc = "zip", !.files_processed = files]]
    /\ UpdateJob(call[c].server,
                 [active_backups[call[c].server] EXCEPT
                     !.files_processed = files, !.data_size = files])
    /\ UNCHANGED <<backup_dir, now, call, events, last, run>>

\* The backup file of worker c on the disk
WriteZip(c) ==
    [backup_dir EXCEPT ![call[c].server].zips =
        @ \cup {ZipFile(thread[c].backup_name, thread[c].backup_name)}]

\* line 168-191: create the ZIP archive. zipfile.ZipFile(...) may raise before
\* the file exists; an exception inside the with block leaves the file.
Zip(c) ==
    /\ thread[c].pc = "zip"
    /\ Emit(c, <<Event("info", 80)>>)
    /\ \/ /\ backup_dir' = WriteZip(c)
          /\ Goto(c, "metadata")
       \/ /\ backup_dir' = WriteZip(c)
          /\ Raise(c, "zip write failed")
       \/ /\ UNCHANGED backup_dir
          /\ Raise(c, "zip open failed")
    /\ UNCHANGED <<active_backups, now, call, last, run>>

\* The metadata file of worker c on the disk
WriteMetadata(c) ==
    [backup_dir EXCEPT ![call[c].server].metas =
        @ \cup {Metadata(call[c].server, thread[c].backup_name,
                         thread[c].backup_name, thread[c].files_processed)}]

\* line 204-217: backup_path.stat() and the metadata file
WriteMetadataStep(c) ==
    /\ thread[c].pc = "metadata"
    /\ \/ /\ backup_dir' = WriteMetadata(c)
          /\ Goto(c, "finish")
       \/ /\ UNCHANGED backup_dir
          /\ Raise(c, "metadata write failed")
    /\ UNCHANGED <<active_backups, now, call, events, last, run>>

\* The record of a finished run, line 231-235
CompletedJob(job, c) ==
    [job EXCEPT !.status = "completed",
                !.backup_file = <<call[c].server, thread[c].backup_name>>,
                !.progress = 100]

\* line 219-235: close the session, emit the success event, and the record
\* becomes 'completed', if the server is in the map
Finish(c) ==
    /\ thread[c].pc = "finish"
    /\ \/ /\ Raise(c, "close failed")
          /\ UNCHANGED <<active_backups, events>>
       \/ /\ Emit(c, <<Event("success", 100)>>)
          /\ UpdateJob(call[c].server,
                       CompletedJob(active_backups[call[c].server], c))
          /\ Goto(c, "prune")
    /\ UNCHANGED <<backup_dir, now, call, last, run>>

\* line 237-238: self._cleanup_old_backups(server_backup_dir); the first nOk
\* unlink calls succeed
Prune(c) ==
    /\ thread[c].pc = "prune"
    /\ \E nOk \in 0..Len(CleanupOps(backup_dir[call[c].server], keep_count)) :
          backup_dir' = [backup_dir EXCEPT ![call[c].server] =
                            cleanup_old_backups(@, keep_count, nOk)]
    /\ Goto(c, "done")
    /\ UNCHANGED <<active_backups, now, call, events, last, run>>

\* The record of a failed run, line 247-248
FailedJob(job, c) ==
    [job EXCEPT !.status = "failed", !.error = thread[c].error]

\* line 240-248: the except clause: the error event, and the record becomes
\* 'failed' with the message, if the server is in the map
Except(c) ==
    /\ thread[c].pc = "except"
    /\ Emit(c, <<Event("error", -1)>>)
    /\ UpdateJob(call[c].server, FailedJob(active_backups[call[c].server], c))
    /\ Goto(c, "done")
    /\ UNCHANGED <<backup_dir, now, call, last, run>>

----------------------------------------------------------------------------
(* One job seen from inside: the requested paths on the remote server, the
   progress callback, and _download_path_with_progress *)

\* The server of the job
JobServer == "web1"

\* A remote path: kind says what the server answers for it ("missing": test -e
\* fails; "excluded": a file named *.sqlite, *.sqlite3 or *.db; "locked": a
\* file sftp.get fails on; "file"; "dir"; "unlistable": a directory
\* sftp.listdir fails on), name is os.path.basename(remote_path)
Entry(kind, name, size, children) ==
    [kind |-> kind, name |-> name, size |-> size, children |-> children]

LeafKinds == {"missing", "excluded", "locked", "file"}

\* find "<path>" -type f | wc -l, when the command works
RECURSIVE TrueCount(_)
RECURSIVE TrueCountAll(_)
TrueCount(e) ==
    CASE e.kind \in {"missing", "unlistable"} -> 0
      [] e.kind = "dir" -> TrueCountAll(e.children)
      [] OTHER -> 1

TrueCountAll(es) ==
    IF es = <<>> THEN 0 ELSE TrueCount(Head(es)) + TrueCountAll(Tail(es))

\* _count_files, line 250-257: the count, or 0 when exec_command or int()
\* raises
count_files(e) == {0, TrueCount(e)}

\* progress_callback(log_type, message, progress, stats=...); progress None is
\* -1; what names the call of the source that delivers it
JobEvent(type, progress, what) ==
    [type |-> type, progress |-> progress, what |-> what, stats |-> <<>>]

\* progress_callback is None
NoCallback(cb) == cb.mode = "none"

\* The n-th call of the callback raises
DeliveryRaises(cb, n) ==
    \/ cb.mode = "once" /\ n = cb.at
    \/ cb.mode = "from" /\ n >= cb.at

\* What a worker touches beside the job map and the backup directory: the
\* calls of the callback made (n), the events it took and the ones it raised
\* on (failed), an exception on its way up (raised), the files and
\* directories of the temporary directory, and the files sftp.get has
\* transferred (got_files, got_size)
EmptyWorld ==
    [n |-> 0, evs |-> <<>>, failed |-> {}, raised |-> FALSE, files |-> {},
     dirs |-> {}, got_files |-> 0, got_size |-> 0]

\* `if progress_callback: progress_callback(...)`
Deliver(cb, w, ev) ==
    IF NoCallback(cb) THEN w
    ELSE IF DeliveryRaises(cb, w.n + 1)
    THEN [w EXCEPT !.n = @ + 1, !.failed = @ \cup {ev.what}, !.raised = TRUE]
    ELSE [w EXCEPT !.n = @ + 1, !.evs = Append(@, ev)]

\* An except clause has caught the exception
Caught(w) == [w EXCEPT !.raised = FALSE]

\* `return files_downloaded, total_size`, or the exception leaving the call
Ret(w, f, s) == [w |-> w, files_downloaded |-> f, total_size |-> s]

\* line 301: 15 + (files_processed * 60 // total_files)
FileProgress(files_processed, total_files) ==
    15 + ((files_processed * 60) \div total_files)

\* line 311-314: the except clause around sftp.get: a warning, return 0, 0
SkipLocked(cb, r) ==
    LET w == Deliver(cb, Caught(r.w), JobEvent("warning", -1, "skipped"))
    IN IF w.raised THEN [r EXCEPT !.w = w] ELSE Ret(w, 0, 0)

\* line 303-310: sftp.get(remote_path, local_path), stat, the success event
Transfer(cb, e, local, w) ==
    IF e.kind = "locked" \/ local \in w.dirs
    THEN SkipLocked(cb, Ret(w, 0, 0))
    ELSE LET got == [w EXCEPT
                       !.files = {f \in @ : f.path # local}
                                    \cup {[path |-> local, size |-> e.size]},
                       !.got_files = @ + 1, !.got_size = @ + e.size]
             told == Deliver(cb, got, JobEvent("success", -1, "downloaded"))
         IN IF told.raised THEN SkipLocked(cb, Ret(told, 1, e.size))
            ELSE Ret(told, 1, e.size)

\* line 291-314: the path is a file
DownloadFile(cb, e, local, files_processed, total_files, w) ==
    IF e.kind = "excluded"
    THEN Ret(Deliver(cb, w, JobEvent("warning", -1, "excluded")), 0, 0)
    ELSE IF NoCallback(cb) THEN Transfer(cb, e, local, w)
    ELSE IF total_files = 0
    THEN Ret([w EXCEPT !.raised = TRUE], 0, 0)   \* ZeroDivisionError, line 301
    ELSE LET told == Deliver(cb, w,
                        JobEvent("info",
                                 FileProgress(files_processed, total_files),
                                 "downloading"))
         IN IF told.raised THEN Ret(told, 0, 0)
            ELSE Transfer(cb, e, local, told)

\* line 336-338: the outer except clause: an error event, then line 340
OuterExcept(cb, r) ==
    IF r.w.raised
    THEN [r EXCEPT !.w = Deliver(cb, Caught(r.w),
                                 JobEvent("error", -1, "path failed"))]
    ELSE r

RECURSIVE DownloadPath(_, _, _, _, _, _)
RECURSIVE DownloadChildren(_, _, _, _, _, _)

\* line 323-330: the loop over sftp.listdir(remote_path); r holds the sums so
\* far, and an exception leaving a call ends the loop
DownloadChildren(cb, children, local, files_processed, total_files, r) ==
    IF children = <<>> THEN r
    ELSE LET sub == DownloadPath(cb, Head(children), local,
                                 files_processed + r.files_downloaded,
                                 total_files, r.w)
         IN IF sub.w.raised THEN [r EXCEPT !.w = sub.w]
            ELSE DownloadChildren(cb, Tail(children), local, files_processed,
                                  total_files,
                                  Ret(sub.w,
                                      r.files_downloaded + sub.files_downloaded,
                                      r.total_size + sub.total_size))

\* line 316-334: the path is a directory: local_path.mkdir(exist_ok=True)
\* raises when a file has that name; the except clause around the listing
\* reports an error and keeps the sums so far
DownloadDir(cb, e, local, files_processed, total_files, w) ==
    IF \E f \in w.files : f.path = local
    THEN Ret([w EXCEPT !.raised = TRUE], 0, 0)
    ELSE LET made == [w EXCEPT !.dirs = @ \cup {local}]
             r == IF e.kind = "unlistable"
                  THEN Ret([made EXCEPT !.raised = TRUE], 0, 0)
                  ELSE DownloadChildren(cb, e.children, local, files_processed,
                                        total_files, Ret(made, 0, 0))
         IN IF r.w.raised
            THEN [r EXCEPT !.w = Deliver(cb, Caught(r.w),
                                         JobEvent("error", -1,
                                                  "directory failed"))]
            ELSE r

\* _download_path_with_progress, line 268-340; local_base is the local
\* directory the path is downloaded into
DownloadPath(cb, e, local_base, files_processed, total_files, w) ==
    OuterExcept(cb,
        IF e.kind = "missing"
        THEN Ret(Deliver(cb, w, JobEvent("warning", -1, "missing")), 0, 0)
        ELSE IF e.kind \in {"dir", "unlistable"}
        THEN DownloadDir(cb, e, Append(local_base, e.name), files_processed,
                         total_files, w)
        ELSE DownloadFile(cb, e, Append(local_base, e.name), files_processed,
                          total_files, w))

\* The files of the temporary directory in the order of os.walk
RECURSIVE FilesToZip(_)
FilesToZip(files) ==
    IF files = {} THEN <<>>
    ELSE LET f == CHOOSE a \in files :
                     \A b \in files :
                        \/ Len(a.path) < Len(b.path)
                        \/ /\ Len(a.path) = Len(b.path)
                           /\ \A k \in 1..Len(a.path) :
                                 (\A j \in 1..(k - 1) : a.path[j] = b.path[j])
                                 => a.path[k] <= b.path[k]
         IN <<f>> \o FilesToZip(files \ {f})

\* line 188: 80 + (i * 15 // len(files_to_zip))
ZipProgress(i, n) == 80 + ((i * 15) \div n)

\* line 178-191: the loop over files_to_zip from index i on; z holds the
\* entries written so far
RECURSIVE CompressFrom(_, _, _, _)
CompressFrom(cb, files_to_zip, i, z) ==
    IF i >= Len(files_to_zip) \/ z.w.raised THEN z
    ELSE LET written == [z EXCEPT !.entries = @ \cup {files_to_zip[i + 1].path}]
             told == IF i % 10 = 0
                     THEN [written EXCEPT !.w =
                              Deliver(cb, @,
                                      JobEvent("info",
                                               ZipProgress(i, Len(files_to_zip)),
                                               "compressing"))]
                     ELSE written
         IN CompressFrom(cb, files_to_zip, i + 1, told)

\* The worker of the job and its locals; i counts the paths gone through
IdleRun ==
    [pc |-> "none", paths |-> <<>>, counts |-> <<>>,
     cb |-> [mode |-> "none", at |-> 0], i |-> 0, backup_name |-> 0,
     total_files |-> 0, files_processed |-> 0, total_size |-> 0,
     w |-> EmptyWorld, entries |-> {}, error |-> ""]

----------------------------------------------------------------------------
(* The orchestrator: requests and workers interleaved *)

\* The j-th backup a server directory starts with; ids are unique
InitialId(s, j) == (j - 1) * NumServers + ServerIndex(s)

InitialDir(s, n) ==
    [zips |-> {ZipFile(InitialId(s, j), InitialId(s, j)) : j \in 1..n},
     metas |-> {Metadata(s, InitialId(s, j), InitialId(s, j), 1) : j \in 1..n}]

\* The disk starts empty (no server directory yet), or every server directory
\* holds keep_count or more backups of earlier processes
InitialCounts == {0} \cup keep_count..(keep_count + MaxExtra)

InitialDirs(n) ==
    [s \in (IF n = 0 THEN {} ELSE Servers) |-> InitialDir(s, n)]

\* The clock starts after every backup on the disk
FirstRunId == NumServers * (keep_count + MaxExtra) + 1

InitJobs ==
    /\ active_backups = [s \in {} |-> RunningJob]
    /\ call = [c \in Calls |-> IdleCall]
    /\ thread = [c \in Calls |-> IdleThread]
    /\ events = [c \in Calls |-> <<>>]
    /\ last = NoOp

Init ==
    /\ InitJobs
    /\ run = IdleRun
    /\ \E n \in InitialCounts : backup_dir = InitialDirs(n)
    /\ now = FirstRunId

Next ==
    \/ \E c \in Calls, s \in Servers : StartBackupReject(c, s)
    \/ \E c \in Calls, s \in Servers : StartBackupLaunch(c, s)
    \/ \E c \in Calls : StartBackupRegister(c)
    \/ \E c \in Calls : Connect(c)
    \/ \E c \in Calls : Analyze(c, MaxFiles)
    \/ \E c \in Calls : Download(c, MaxFiles)
    \/ \E c \in Calls : Zip(c)
    \/ \E c \in Calls : WriteMetadataStep(c)
    \/ \E c \in Calls : Finish(c)
    \/ \E c \in Calls : Prune(c)
    \/ \E c \in Calls : Except(c)

Spec == Init /\ [][Next]_vars

----------------------------------------------------------------------------
(* The store on its own: delete_backup and _cleanup_old_backups applied to
   the directories a disk can hold *)

ArchiveIds == 1..MaxArchives

\* The modification times: any order of the backups
MtimeOrders == {f \in [ArchiveIds -> ArchiveIds] :
                   \A i, j \in ArchiveIds : f[i] = f[j] => i = j}

\* A backup is on the disk whole ("pair"), or damaged: a backup file without
\* metadata (a run that failed before the metadata was written: "zip"), or
\* metadata alone ("json")
DamagedSets == {D \in SUBSET ArchiveIds : Cardinality(D) <= MaxDamaged}

KindsWith(D) ==
    {[i \in ArchiveIds |-> IF i \in D THEN dk[i] ELSE "pair"] :
        dk \in [D -> {"zip", "json"}]}

Kinds == UNION {KindsWith(D) : D \in DamagedSets}

StoreDir(s, kind, mtime) ==
    [zips |-> {ZipFile(i, mtime[i]) : i \in {j \in ArchiveIds : kind[j] # "json"}},
     metas |-> {Metadata(s, i, i, 1) : i \in {j \in ArchiveIds : kind[j] # "zip"}}]

\* The ids a request may carry: 0 is the created_at of no backup
StoreIds == 0..(MaxArchives + 1)

\* The directory of web1 holds MaxArchives backups, whole or damaged, modified
\* in any order; the directory of db1 holds one whole backup
InitStore ==
    /\ InitJobs
    /\ run = IdleRun
    /\ now = MaxArchives + 2
    /\ \E kind \in Kinds, mtime \in MtimeOrders :
          backup_dir =
              [s \in Servers |->
                  IF s = "web1" THEN StoreDir(s, kind, mtime)
                  ELSE [zips |-> {ZipFile(MaxArchives + 1, MaxArchives + 1)},
                        metas |-> {Metadata(s, MaxArchives + 1,
                                            MaxArchives + 1, 1)}]]

\* delete_backup(backup_id), line 399-429
DeleteBackup(backup_id, outcome) ==
    /\ backup_dir' = delete_backup(backup_dir, backup_id, outcome)
    /\ last' = [NoOp EXCEPT
                  !.op = "delete", !.backup_id = backup_id,
                  !.ok = delete_backup_reply(backup_dir, backup_id, outcome).ok,
                  !.message =
                      delete_backup_reply(backup_dir, backup_id, outcome).message]
    /\ UNCHANGED <<active_backups, now, call, thread, events, run>>

\* _cleanup_old_backups(self.backup_dir / s, keep), line 342-363; the first
\* nOk unlink calls succeed, and ok says that none raised
Cleanup(s, keep, nOk) ==
    /\ backup_dir' = [backup_dir EXCEPT ![s] = cleanup_old_backups(@, keep, nOk)]
    /\ last' = [NoOp EXCEPT
                  !.op = "cleanup", !.server = s, !.keep = keep,
                  !.ok = (nOk = Len(CleanupOps(backup_dir[s], keep))),
                  !.unlinked = nOk]
    /\ UNCHANGED <<active_backups, now, call, thread, events, run>>

\* A server name no directory exists for
NoSuchServer == "mail1"

\* get_backups(server_name), line 365-397
GetBackups(server_name) ==
    /\ last' = [NoOp EXCEPT
                  !.op = "list", !.server = server_name, !.ok = TRUE,
                  !.listing = get_backups(backup_dir,
                                          ServerDirs(backup_dir, server_name))]
    /\ UNCHANGED <<active_backups, backup_dir, now, call, thread, events, run>>

NextStore ==
    \/ \E id \in StoreIds, outcome \in DeleteOutcomes :
          DeleteBackup(id, outcome)
    \/ \E server_name \in Servers \cup {NoSuchServer, ""} :
          GetBackups(server_name)
    \/ \E s \in Servers, keep \in 0..MaxKeep :
          \E nOk \in 0..Len(CleanupOps(backup_dir[s], keep)) :
             Cleanup(s, keep, nOk)

SpecStore == InitStore /\ [][NextStore]_vars

----------------------------------------------------------------------------
(* One job on its own: _perform_backup applied to the paths a server can
   hold, with a callback that may raise. The request was accepted and its
   record stored before the worker runs; the server answers and the disk can
   be written. *)

MaxRoots == 2       \* SpecJob: requested paths of the job
MaxChildren == 2    \* SpecJob: entries of a remote directory
MaxFailAt == 7      \* SpecJob: the latest call of the callback that may raise

\* A file's size in bytes: files at different places differ in size
Leaves(place) ==
    {Entry(k, 0, place, <<>>) : k \in LeafKinds}

\* The entries of a directory are named by their place in the listing
ChildLists(place) ==
    UNION {{[k \in 1..m |-> [cl[k] EXCEPT !.name = k, !.size = place + k]] :
              cl \in [1..m -> Leaves(0)]} : m \in 0..MaxChildren}

Entries(place) ==
    Leaves(place)
        \cup {Entry("dir", 0, 0, cl) : cl \in ChildLists(place)}
        \cup {Entry("unlistable", 0, 0, <<>>)}

\* The base names of m requested paths; two paths of different directories
\* may share one
RootNames(m) == {f \in [1..m -> 1..m] : m > 0 => f[1] = 1}

\* The `paths` of a request: at most n of them
PathLists(n) ==
    UNION {{[k \in 1..m |-> [es[k] EXCEPT !.name = names[k]]] :
              es \in {f \in [1..m -> UNION {Entries(p) : p \in 1..m}] :
                         \A k \in 1..m : f[k] \in Entries(k)},
              names \in RootNames(m)} : m \in 0..n}

\* What _count_files answers for each path
CountLists(paths) ==
    {f \in [1..Len(paths) -> 0..(MaxChildren + 1)] :
        \A k \in 1..Len(paths) : f[k] \in count_files(paths[k])}

Callbacks ==
    {[mode |-> "none", at |-> 0], [mode |-> "ok", at |-> 0]}
        \cup {[mode |-> m, at |-> k] : m \in {"once", "from"}, k \in 1..MaxFailAt}

InitJob ==
    /\ active_backups = (JobServer :> RunningJob)
    /\ backup_dir = InitialDirs(0)
    /\ now = FirstRunId
    /\ call = [c \in Calls |-> IdleCall]
    /\ thread = [c \in Calls |-> IdleThread]
    /\ events = [c \in Calls |-> <<>>]
    /\ last = NoOp
    /\ \E paths \in PathLists(MaxRoots), cb \in Callbacks :
          \E counts \in CountLists(paths) :
             run = [IdleRun EXCEPT !.pc = "connect", !.paths = paths,
                                   !.counts = counts, !.cb = cb]

\* An exception reaches the except clause of line 240
JobRaise(w, e) ==
    run' = [run EXCEPT !.pc = "except", !.w = Caught(w), !.error = e]

\* line 90-116: the two events around ssh.connect, the server directory, the
\* clock read for the backup name
JobConnect ==
    /\ run.pc = "connect"
    /\ LET told == Deliver(run.cb, run.w, JobEvent("info", 0, "connecting"))
           told2 == Deliver(run.cb, told, JobEvent("success", 5, "connected"))
       IN IF told.raised
          THEN JobRaise(told, "callback failed") /\ UNCHANGED <<backup_dir, now>>
          ELSE IF told2.raised
          THEN JobRaise(told2, "callback failed") /\ UNCHANGED <<backup_dir, now>>
          ELSE /\ backup_dir' = Mkdir(backup_dir, JobServer)
               /\ run' = [run EXCEPT !.pc = "analyze", !.w = told2,
                                     !.backup_name = now]
               /\ now' = now + 1
    /\ UNCHANGED <<active_backups, call, thread, events, last>>

RECURSIVE SumSeq(_)
SumSeq(seq) == IF seq = <<>> THEN 0 ELSE Head(seq) + SumSeq(Tail(seq))

\* line 118-134: the counts of the paths are added up, and the total is noted
\* in the record
JobAnalyze ==
    /\ run.pc = "analyze"
    /\ LET total == SumSeq(run.counts)
           told == Deliver(run.cb, run.w, JobEvent("info", 10, "analyzing"))
           told2 == Deliver(run.cb, told, JobEvent("info", 15, "found"))
       IN IF told.raised
          THEN JobRaise(told, "callback failed") /\ UNCHANGED active_backups
          ELSE IF told2.raised
          THEN JobRaise(told2, "callback failed") /\ UNCHANGED active_backups
          ELSE /\ run' = [run EXCEPT !.pc = "download", !.w = told2,
                                     !.total_files = total]
               /\ UpdateJob(JobServer,
                            [active_backups[JobServer] EXCEPT
                                !.total_files = total])
    /\ UNCHANGED <<backup_dir, now, call, thread, events, last>>

\* line 149: 15 + (i * 60 // len(paths))
PathProgress(i, n) == 15 + ((i * 60) \div n)

\* line 163-166: the except clause of one path: an error event, `continue`
JobSkipPath(w) ==
    LET told == Deliver(run.cb, Caught(w), JobEvent("error", -1, "path skipped"))
    IN IF told.raised THEN JobRaise(told, "callback failed")
       ELSE run' = [run EXCEPT !.i = @ + 1, !.w = told]

\* line 145-166: one turn of the loop over the paths
JobDownloadPath ==
    /\ run.pc = "download" /\ run.i < Len(run.paths)
    /\ LET told == Deliver(run.cb, run.w,
                           JobEvent("info", PathProgress(run.i, Len(run.paths)),
                                    "processing"))
           r == DownloadPath(run.cb, run.paths[run.i + 1], <<>>,
                             run.files_processed, run.total_files, told)
       IN IF told.raised
          THEN JobSkipPath(told) /\ UNCHANGED active_backups
          ELSE IF r.w.raised
          THEN JobSkipPath(r.w) /\ UNCHANGED active_backups
          ELSE /\ run' = [run EXCEPT
                            !.i = @ + 1, !.w = r.w,
                            !.files_processed = @ + r.files_downloaded,
                            !.total_size = @ + r.total_size]
               /\ UpdateJob(JobServer,
                            [active_backups[JobServer] EXCEPT
                                !.files_processed =
                                    run.files_processed + r.files_downloaded,
                                !.data_size = run.total_size + r.total_size])
    /\ UNCHANGED <<backup_dir, now, call, thread, events, last>>

\* line 168-191: the ZIP archive of the temporary directory; an exception
\* inside the with block leaves the file with the entries written so far
JobCompress ==
    /\ run.pc = "download" /\ run.i = Len(run.paths)
    /\ LET told == Deliver(run.cb, run.w, JobEvent("info", 80, "creating"))
           z == CompressFrom(run.cb, FilesToZip(told.files), 0,
                             [w |-> told, entries |-> {}])
       IN IF told.raised
          THEN JobRaise(told, "callback failed") /\ UNCHANGED backup_dir
          ELSE /\ backup_dir' =
                     [backup_dir EXCEPT ![JobServer].zips =
                         @ \cup {ZipFile(run.backup_name, run.backup_name)}]
               /\ IF z.w.raised
                  THEN run' = [run EXCEPT !.pc = "except", !.w = Caught(z.w),
                                          !.error = "callback failed",
                                          !.entries = z.entries]
                  ELSE run' = [run EXCEPT !.pc = "persist", !.w = z.w,
                                          !.entries = z.entries]
    /\ UNCHANGED <<active_backups, now, call, thread, events, last>>

JobPersistBeforeArchive ==
    /\ run.pc = "download" /\ run.i = Len(run.paths)
    /\ backup_dir' =
          [backup_dir EXCEPT ![JobServer].metas =
              @ \cup {Metadata(JobServer, run.backup_name, run.backup_name,
                               run.files_processed)}]
    /\ run' = [run EXCEPT !.pc = "finish"]
    /\ UNCHANGED <<active_backups, now, call, thread, events, last>>

\* line 204-217: the metadata file
JobPersist ==
    /\ run.pc = "persist"
    /\ backup_dir' =
          [backup_dir EXCEPT ![JobServer].metas =
              @ \cup {Metadata(JobServer, run.backup_name, run.backup_name,
                               run.files_processed)}]
    /\ run' = [run EXCEPT !.pc = "finish"]
    /\ UNCHANGED <<active_backups, now, call, thread, events, last>>

\* line 219-235: the success event with its stats, then the record becomes
\* 'completed'
JobFinish ==
    /\ run.pc = "finish"
    /\ LET told == Deliver(run.cb, run.w,
                           [JobEvent("success", 100, "completed") EXCEPT
                               !.stats = <<run.files_processed, run.total_size>>])
       IN IF told.raised
          THEN JobRaise(told, "callback failed") /\ UNCHANGED active_backups
          ELSE /\ run' = [run EXCEPT !.pc = "prune", !.w = told]
               /\ UpdateJob(JobServer,
                            [active_backups[JobServer] EXCEPT
                                !.status = "completed",
                                !.backup_file = <<JobServer, run.backup_name>>,
                                !.progress = 100])
    /\ UNCHANGED <<backup_dir, now, call, thread, events, last>>

\* line 237-238: self._cleanup_old_backups(server_backup_dir)
JobPrune ==
    /\ run.pc = "prune"
    /\ \E nOk \in 0..Len(CleanupOps(backup_dir[JobServer], keep_count)) :
          backup_dir' = [backup_dir EXCEPT ![JobServer] =
                            cleanup_old_backups(@, keep_count, nOk)]
    /\ run' = [run EXCEPT !.pc = "done"]
    /\ UNCHANGED <<active_backups, now, call, thread, events, last>>

\* line 240-248: the except clause: the error event, then the record becomes
\* 'failed'; a callback that raises here ends the thread before that
JobExcept ==
    /\ run.pc = "except"
    /\ LET told == Deliver(run.cb, run.w, JobEvent("error", -1, "failed"))
       IN IF told.raised
          THEN /\ run' = [run EXCEPT !.pc = "dead", !.w = told]
               /\ UNCHANGED active_backups
          ELSE /\ run' = [run EXCEPT !.pc = "done", !.w = told]
               /\ UpdateJob(JobServer,
                            [active_backups[JobServer] EXCEPT
                                !.status = "failed", !.error = run.error])
    /\ UNCHANGED <<backup_dir, now, call, thread, events, last>>

NextJob ==
    \/ JobConnect
    \/ JobAnalyze
    \/ JobDownloadPath
    \/ JobCompress
    \/ JobPersist
    \/ JobFinish
    \/ JobPrune
    \/ JobExcept

SpecJob == InitJob /\ [][NextJob]_vars

----------------------------------------------------------------------------
(* Properties of start_backup and of the worker, under Spec *)

Terminal == {"completed", "failed"}

\* Request c runs its guard for server s in this step
GuardStep(c, s) ==
    call[c].pc = "idle" /\ call'[c].pc # "idle" /\ call'[c].server = s

\* C1: a start_backup whose guard runs while the record of its server has
\* status 'running' returns failure "already in progress", starts no worker
\* and leaves the job map as it was.
C1_RejectedWhileRunning ==
    [][\A c \in Calls, s \in Servers :
          (/\ GuardStep(c, s)
           /\ InActiveBackups(s)
           /\ active_backups[s].status = "running")
          => /\ call'[c].pc = "rejected"
             /\ ~call'[c].ok
             /\ call'[c].message = "Backup already in progress for this server"
             /\ thread' = thread
             /\ active_backups' = active_backups]_vars

\* A request was rejected and the record of its server is 'running'
C1_Witness ==
    \E c \in Calls :
        /\ call[c].pc = "rejected"
        /\ active_backups[call[c].server].status = "running"

WorkerActive(c) == thread[c].pc \notin {"none", "done"}

\* C2: the guard and the insert of start_backup are one atomic step: never
\* two accepted requests racing, never two workers of one server at a time.
C2_OneWorkerPerServer ==
    \A b, c \in Calls :
        (b # c /\ WorkerActive(b) /\ WorkerActive(c))
        => call[b].server # call[c].server

\* C3: once a request is accepted and its worker has finished, the record
\* of its server is 'completed' or 'failed', not 'running'.
C3_NeverLeftRunning ==
    \A c \in Calls :
        (call[c].pc = "accepted" /\ thread[c].pc = "done")
        => active_backups[call[c].server].status \in Terminal

\* C4: a start_backup whose guard runs while the record of its server is
\* 'completed' or 'failed' is accepted (its worker is launched).
C4_AcceptedAfterTerminal ==
    [][\A c \in Calls, s \in Servers :
          (/\ GuardStep(c, s)
           /\ InActiveBackups(s)
           /\ active_backups[s].status \in Terminal)
          => call'[c].pc = "launched"]_vars

Paired(dir) ==
    {z.name : z \in dir.zips} = {m.backup_name : m \in dir.metas}

\* C5: when no worker is running and no request is in flight, every backup file under the backup root
\* has its metadata file and every metadata file its backup file.
C5_ArchiveMetadataPaired ==
    (\A c \in Calls : ~WorkerActive(c) /\ call[c].pc # "launched")
    => \A d \in DOMAIN backup_dir : Paired(backup_dir[d])

\* C10: the except clause leaves the record of the server 'failed' with the
\* message of the exception and emits an error event; a run without an
\* exception leaves the record 'completed' with backup_file set and emits
\* the success event with progress 100.
C10_TerminalRecord ==
    [][\A c \in Calls :
          /\ (thread[c].pc = "except" /\ thread'[c].pc = "done")
             => /\ InActiveBackups(call[c].server)'
                /\ active_backups'[call[c].server].status = "failed"
                /\ active_backups'[call[c].server].error = thread[c].error
                /\ events'[c][Len(events'[c])].type = "error"
          /\ (thread[c].pc = "finish" /\ thread'[c].pc = "prune")
             => /\ InActiveBackups(call[c].server)'
                /\ active_backups'[call[c].server].status = "completed"
                /\ active_backups'[call[c].server].backup_file =
                       <<call[c].server, thread[c].backup_name>>
                /\ events'[c][Len(events'[c])] = Event("success", 100)]_vars

----------------------------------------------------------------------------
(* Properties of the store, under SpecStore *)

\* This step is a call of _cleanup_old_backups; last' holds its arguments
CleanupStep ==
    last'.op = "cleanup" /\ Cleanup(last'.server, last'.keep, last'.unlinked)

\* This step is a call of delete_backup(id)
DeleteStep(id) ==
    /\ last'.op = "delete" /\ last'.backup_id = id
    /\ \E o \in DeleteOutcomes : DeleteBackup(id, o)

\* The backup files a pruning with keep_count = k is to keep: those with
\* fewer than k backup files modified after them
MostRecent(dir, k) ==
    {a \in dir.zips : Cardinality({b \in dir.zips : b.mtime > a.mtime}) < k}

\* before pruned down to the k most recently modified backups, each removed
\* backup file gone with its metadata
PrunedTo(before, after, k) ==
    /\ Cardinality(after.zips) <= k
    /\ after.zips = MostRecent(before, k)
    /\ after.metas =
          {m \in before.metas :
              \A z \in before.zips \ MostRecent(before, k) :
                  z.name # m.backup_name}

Leftover(before, after, k) ==
    {z.name : z \in before.zips \ MostRecent(before, k)}
        \cap ({z.name : z \in after.zips}
                 \cup {m.backup_name : m \in after.metas})

\* C7: when one unlink of _cleanup_old_backups raises, every other backup
\* past the keep count is still deleted: at most the one backup whose
\* deletion failed is left of them.
C7_FailureDoesNotAbortPruning ==
    [][(CleanupStep /\ ~last'.ok)
        => Cardinality(Leftover(backup_dir[last'.server],
                                backup_dir'[last'.server], last'.keep)) <= 1]_vars

ListedIds(dirs) == {b.created_at : b \in ListedSet(dirs, Servers)}

\* C8: delete_backup with an id that no listed backup has as created_at
\* returns failure "Backup not found" and changes no file; after a
\* successful delete the id is listed no more, so deleting it again is such
\* a call.
C8_DeleteOfUnknownId ==
    [][\A id \in StoreIds :
          DeleteStep(id)
          => /\ id \notin ListedIds(backup_dir)
                => /\ ~last'.ok
                   /\ last'.message = "Backup not found"
                   /\ backup_dir' = backup_dir
             /\ last'.ok => id \notin ListedIds(backup_dir')]_vars

\* A delete answered "Backup not found" while backups are listed, one of
\* them in a metadata file with this id whose backup file is gone
C8_Witness ==
    /\ last.op = "delete" /\ last.message = "Backup not found"
    /\ ListedIds(backup_dir) # {}
    /\ \E d \in Servers : \E m \in backup_dir[d].metas :
          m.created_at = last.backup_id

\* The files of the backup with this id, in any directory
FilesOf(dirs, id) ==
    [d \in DOMAIN dirs |->
        [zips |-> {z \in dirs[d].zips : z.name = id},
         metas |-> {m \in dirs[d].metas : m.created_at = id}]]

\* The files of all other backups
FilesBut(dirs, id) ==
    [d \in DOMAIN dirs |->
        [zips |-> {z \in dirs[d].zips : z.name # id},
         metas |-> {m \in dirs[d].metas : m.created_at # id}]]

\* C9 as stated: delete_backup with the id of a listed backup deletes its
\* backup file and its metadata, reports success and leaves every other
\* backup unchanged.
C9_DeleteOfListedId ==
    [][\A id \in StoreIds :
          (DeleteStep(id) /\ id \in ListedIds(backup_dir))
          => /\ last'.ok
             /\ FilesOf(backup_dir', id) = [d \in Servers |-> EmptyDir]
             /\ FilesBut(backup_dir', id) = FilesBut(backup_dir, id)]_vars

\* C9, amended: delete_backup with the id of a listed backup leaves every
\* other backup unchanged; it reports success exactly when no unlink raised,
\* and then the backup file and the metadata are both gone; otherwise it
\* answers "Error deleting backup" and the metadata is still there.
C9_DeleteOfListedIdUnlessUnlinkRaises ==
    [][\A id \in StoreIds :
          (DeleteStep(id) /\ id \in ListedIds(backup_dir))
          => /\ FilesBut(backup_dir', id) = FilesBut(backup_dir, id)
             /\ last'.ok = DeleteBackup(id, "ok")
             /\ last'.ok
                => /\ last'.message = "Backup deleted successfully"
                   /\ FilesOf(backup_dir', id) = [d \in Servers |-> EmptyDir]
             /\ ~last'.ok
                => /\ last'.message = "Error deleting backup"
                   /\ \A d \in Servers :
                         FilesOf(backup_dir', id)[d].metas =
                             FilesOf(backup_dir, id)[d].metas]_vars

\* A delete succeeded, its files are gone, and both directories still hold
\* a listed backup
C9_Witness ==
    /\ last.op = "delete" /\ last.ok
    /\ FilesOf(backup_dir, last.backup_id) = [d \in Servers |-> EmptyDir]
    /\ \A d \in Servers : ListedSet(backup_dir, {d}) # {}

----------------------------------------------------------------------------
(* Properties of one job, under SpecJob *)

\* The worker has returned, or an exception has ended its thread
JobOver == run.pc \in {"done", "dead"}

\* The record is 'completed' and the backup file and the metadata of the run
\* are on the disk
JobCompletedWhole ==
    /\ active_backups[JobServer].status = "completed"
    /\ JobServer \in DOMAIN backup_dir
    /\ \E z \in backup_dir[JobServer].zips : z.name = run.backup_name
    /\ \E m \in backup_dir[JobServer].metas : m.backup_name = run.backup_name

\* A call of the callback has raised
CallbackRaised == run.w.failed # {}

\* The events that report the error of one path: line 280, 295, 313, 334,
\* 338 and 165
PathErrorReports ==
    {"missing", "excluded", "skipped", "directory failed", "path failed",
     "path skipped"}

\* C11: a progress callback that raises does not abort the backup: the job
\* still ends 'completed' with its backup file and its metadata written.
C11_CallbackFailureDoesNotAbort ==
    (JobOver /\ CallbackRaised) => JobCompletedWhole

\* C12: errors of single paths never abort the job: whatever the requested
\* paths are (missing, excluded, failing to transfer or to list), every path
\* is gone through and the job ends 'completed'; a job whose only path is an
\* excluded file ends with files_processed = 0 and an archive of no entries.
\* Looked at are the runs in which nothing fails but the paths and the
\* reports of their errors (and, once the job is aborted, the report of that).
C12_PathErrorsDoNotAbort ==
    (JobOver /\ run.w.failed \subseteq PathErrorReports \cup {"failed"})
    => /\ run.i = Len(run.paths)
       /\ JobCompletedWhole
       /\ (Len(run.paths) = 1 /\ run.paths[1].kind = "excluded")
          => /\ run.files_processed = 0
             /\ active_backups[JobServer].files_processed = 0
             /\ run.entries = {}

\* C13: when the record is 'completed', its files_processed is at most its
\* total_files.
C13_ProcessedWithinTotal ==
    active_backups[JobServer].status = "completed"
    => active_backups[JobServer].files_processed
          <= active_backups[JobServer].total_files

\* C14: the files_processed and data_size a completed job reports, in the
\* record, in the metadata (files_count) and in the success event, are the
\* number and the summed size of the files sftp.get has transferred.
C14_CountsOnlyTransferredFiles ==
    (JobOver /\ active_backups[JobServer].status = "completed")
    => /\ active_backups[JobServer].files_processed = run.w.got_files
       /\ active_backups[JobServer].data_size = run.w.got_size
       /\ \A m \in backup_dir[JobServer].metas :
             m.backup_name = run.backup_name => m.files_count = run.w.got_files
       /\ \A k \in DOMAIN run.w.evs :
             run.w.evs[k].what = "completed"
             => run.w.evs[k].stats = <<run.w.got_files, run.w.got_size>>

\* The files under the paths that exist, are not excluded and can be reached
\* and transferred
RECURSIVE Transferable(_)
Transferable(es) ==
    IF es = <<>> THEN 0
    ELSE (CASE Head(es).kind = "file" -> 1
            [] Head(es).kind = "dir" -> Transferable(Head(es).children)
            [] OTHER -> 0)
         + Transferable(Tail(es))

\* C18: the count of the analysis stage is advisory: when the counts of the
\* paths add up to 0, a job that completes has still downloaded and counted
\* every transferable file under them.
C18_CountIsAdvisory ==
    (JobOver /\ active_backups[JobServer].status = "completed"
        /\ run.total_files = 0 /\ ~CallbackRaised)
    => run.files_processed = Transferable(run.paths)

\* C19: every progress value emitted is in 0..100 (or absent), that of a
\* file-download event is in 15..75 and that of a compression event in
\* 80..95.
C19_ProgressInBand ==
    \A k \in DOMAIN run.w.evs :
        LET e == run.w.evs[k]
        IN /\ e.progress \in {-1} \cup 0..100
           /\ e.what = "downloading" => e.progress \in 15..75
           /\ e.what = "compressing" => e.progress \in 80..95

----------------------------------------------------------------------------
(* Further properties of the store, under SpecStore *)

\* This step is a call of get_backups; last' holds its argument and result
ListStep == last'.op = "list" /\ GetBackups(last'.server)

\* The listed record is the metadata m of directory d with file_path and
\* size_mb added, size_mb being size_bytes / 2^20 to the nearest hundredth
ListedFrom(b, d, m) ==
    /\ b.server_name = m.server_name /\ b.backup_name = m.backup_name
    /\ b.created_at = m.created_at /\ b.size_bytes = m.size_bytes
    /\ b.files_count = m.files_count
    /\ b.file_path = <<d, m.backup_name>>
    /\ 2 * (b.size_mb * 1024 * 1024 - 100 * m.size_bytes) <= 1024 * 1024
    /\ 2 * (100 * m.size_bytes - b.size_mb * 1024 * 1024) <= 1024 * 1024

\* C15: get_backups(server_name) returns exactly the metadata records of
\* that server's directory (of every directory when no name is given) whose
\* backup file exists, each once and with size_mb added, by created_at
\* descending; for a server without backups or without a directory it
\* returns the empty list; it changes no file.
C15_ListsBackupsNewestFirst ==
    [][ListStep
        => LET listing == last'.listing
               asked == {d \in DOMAIN backup_dir : last'.server \in {"", d}}
           IN /\ backup_dir' = backup_dir
              /\ \A i, j \in DOMAIN listing :
                    i < j => /\ listing[i].created_at >= listing[j].created_at
                             /\ listing[i] # listing[j]
              /\ \A i \in DOMAIN listing :
                    \E d \in asked : \E m \in backup_dir[d].metas :
                       /\ ListedFrom(listing[i], d, m)
                       /\ \E z \in backup_dir[d].zips : z.name = m.backup_name
              /\ \A d \in asked : \A m \in backup_dir[d].metas :
                    (\E z \in backup_dir[d].zips : z.name = m.backup_name)
                    => \E i \in DOMAIN listing : ListedFrom(listing[i], d, m)
              /\ (\A d \in asked : backup_dir[d].zips = {}) => listing = <<>>]_vars

\* A listing of every directory returned backups of two servers and left out
\* a metadata file whose backup file is gone
C15_Witness ==
    /\ last.op = "list" /\ last.server = ""
    /\ \E i, j \in DOMAIN last.listing :
          last.listing[i].server_name # last.listing[j].server_name
    /\ \E d \in DOMAIN backup_dir : \E m \in backup_dir[d].metas :
          \A z \in backup_dir[d].zips : z.name # m.backup_name

----------------------------------------------------------------------------
(* Further properties of start_backup and of the worker, under Spec *)

\* The record and the directory of a server, if there are any
RecordOf(jobs, s) == IF s \in DOMAIN jobs THEN <<jobs[s]>> ELSE <<>>

DirOf(dirs, s) == IF s \in DOMAIN dirs THEN <<dirs[s]>> ELSE <<>>

\* This step is one of request c or of its worker
StepOf(c) == thread'[c] # thread[c] \/ call'[c] # call[c]

C17_PrunedBeforeCompletion ==
    \A c \in Calls :
        (\/ \E k \in DOMAIN events[c] : events[c][k] = Event("success", 100)
         \/ /\ thread[c].pc \in {"prune", "done"}
            /\ InActiveBackups(call[c].server)
            /\ active_backups[call[c].server].status = "completed")
        => thread[c].pc = "done"

StatusOf(jobs, s) == IF s \in DOMAIN jobs THEN jobs[s].status ELSE "absent"

\* This step stores the record of an accepted request for s
RegisterStep(s) ==
    \E c \in Calls :
        call[c].pc = "launched" /\ call'[c].pc = "accepted" /\ call[c].server = s

\* C20: the status of a server's record changes only from absent to
\* 'running', from 'running' to 'completed' and from 'running' to 'failed';
\* a 'completed' or 'failed' record changes only by a newly accepted start,
\* which makes it 'running'.
C20_StatusStateMachine ==
    [][\A s \in Servers :
          LET a == StatusOf(active_backups, s)
              b == StatusOf(active_backups', s)
          IN a # b
             => \/ a = "absent" /\ b = "running"
                \/ a = "running" /\ b \in Terminal
                \/ a \in Terminal /\ b = "running" /\ RegisterStep(s)]_vars

----------------------------------------------------------------------------
(* Properties of the stages of one job and of what it leaves on the disk *)

\* The place of a position of the worker in the order of the stages
StageRank(pc) ==
    CASE pc = "connect" -> 1
      [] pc = "analyze" -> 2
      [] pc = "download" -> 3
      [] pc = "persist" -> 5
      [] pc = "finish" -> 6
      [] pc = "prune" -> 7
      [] OTHER -> 8

\* The backup file of the run is on the disk
ArchiveOnDisk(dirs) ==
    /\ JobServer \in DOMAIN dirs
    /\ \E z \in dirs[JobServer].zips : z.name = run.backup_name

\* The metadata file of the run is on the disk
MetadataOnDisk(dirs) ==
    /\ JobServer \in DOMAIN dirs
    /\ \E m \in dirs[JobServer].metas : m.backup_name = run.backup_name

\* C21: within one job the stages are strictly sequential: a step that does
\* not go to the except clause goes to the next stage, or to the next path of
\* the download; the backup file is created only when every path has been
\* gone through; the metadata file is written only when the backup file is
\* there and closed; files are removed only in the pruning, after the
\* metadata file is written.
C21_StagesSequential ==
    [][/\ (run.pc # "except" /\ run'.pc \notin {"except", "dead"})
          => \/ StageRank(run'.pc) = StageRank(run.pc) + 1
             \/ /\ run.pc = "download" /\ run'.pc = "persist"
                /\ run.i = Len(run.paths)
             \/ /\ run.pc = "download" /\ run'.pc = "download"
                /\ run.i < Len(run.paths) /\ run'.i = run.i + 1
       /\ run.pc = "analyze" => run.w.files = {} /\ run.w.got_files = 0
       /\ (~ArchiveOnDisk(backup_dir) /\ ArchiveOnDisk(backup_dir'))
          => /\ run.pc = "download" /\ run.i = Len(run.paths)
             /\ run'.w.files = run.w.files
             /\ run'.w.got_files = run.w.got_files
       /\ (~MetadataOnDisk(backup_dir) /\ MetadataOnDisk(backup_dir'))
          => /\ run.pc = "persist" /\ ArchiveOnDisk(backup_dir)
             /\ backup_dir'[JobServer].zips = backup_dir[JobServer].zips
       /\ (\E s \in DOMAIN backup_dir :
              \/ backup_dir'[s].zips # backup_dir[s].zips \cup backup_dir'[s].zips
              \/ backup_dir'[s].metas # backup_dir[s].metas \cup backup_dir'[s].metas)
          => run.pc = "prune" /\ MetadataOnDisk(backup_dir)
      ]_vars

\* A job of as many paths as a request may have has gone through every stage
\* and left an archive with entries
C21_Witness ==
    /\ run.pc = "done"
    /\ active_backups[JobServer].status = "completed"
    /\ Len(run.paths) = MaxRoots
    /\ run.entries # {}
    /\ ArchiveOnDisk(backup_dir) /\ MetadataOnDisk(backup_dir)

\* C22: for every completed job the files_count of its metadata file is the
\* number of entries of its archive, whatever the requested paths are, paths
\* that share a base name included. Looked at are the runs in which no call
\* of the callback raises; the compression of the model skips no file.
C22_FilesCountIsArchiveEntries ==
    (run.pc = "done" /\ active_backups[JobServer].status = "completed"
        /\ ~CallbackRaised)
    => \A m \in backup_dir[JobServer].metas :
          m.backup_name = run.backup_name
          => m.files_count = Cardinality(run.entries)

\* Worker c is the only worker started for its server
SoleWorker(c) ==
    \A b \in Calls \ {c} :
        thread[b].pc = "none" \/ call[b].server # call[c].server

\* Worker c has returned and the record of its server has this status
EndedWith(c, status) ==
    /\ thread[c].pc = "done"
    /\ InActiveBackups(call[c].server)
    /\ active_backups[call[c].server].status = status

\* C23: a run whose job ends 'failed' leaves no metadata file of that run,
\* so get_backups lists no backup of it. Looked at are the servers one worker
\* only was started for.
C23_FailedRunNotListed ==
    \A c \in Calls :
        (SoleWorker(c) /\ EndedWith(c, "failed"))
        => /\ call[c].server \in DOMAIN backup_dir
              => \A m \in backup_dir[call[c].server].metas :
                    m.backup_name # thread[c].backup_name
           /\ \A b \in ListedSet(backup_dir, {call[c].server}) :
                 b.backup_name # thread[c].backup_name

====
